---- MODULE Spec2Model ----
(***************************************************************************)
(* A model of imgstore/index.py: the index builder (new_from_chunks), the  *)
(* opened index (ImgStoreIndex.__init__), its queries and the on-disk      *)
(* chunk-interval cache (chunk_index).                                     *)
(*                                                                         *)
(* The frames table is a sequence of rows; a row's rowid is its position.  *)
(* frame_time (REAL) is modelled over the integers.                        *)
(***************************************************************************)
EXTENDS Integers, Sequences, FiniteSets, TLC

VARIABLES input,    \* chunk_n_and_chunk_paths given to new_from_chunks
          other,    \* chunk_n_and_chunk_paths of a second index object
          todo,     \* the part of the sorted input the build loop has not seen
          frames,   \* table frames, in rowid order
          chunks,   \* table chunks, in rowid order
          stats,    \* the running frame_min, frame_max, frame_time_min, frame_time_max
          summary,  \* table summary
          pc,       \* "build", "open" (the index object exists) or "failed"
          self,     \* the fields __init__ sets
          call,     \* the last query and what it returned
          ppc,      \* per process: position inside the chunk_index property
          mem,      \* per process: self._chunk_index
          fs,       \* the cache directory: file name -> file
          keys      \* per index object: the text chunk_index hashes

vars == <<input, other, todo, frames, chunks, stats, summary, pc, self, call,
          ppc, mem, fs, keys>>

cacheVars == <<ppc, mem, fs, keys>>

----------------------------------------------------------------------------
(* Bounds *)

MaxRows == 2        \* frames over the whole store, and the length of a loaded list
MaxKey == 1         \* frame numbers and frame times are 0..MaxKey, in halves
MaxDepth == 3       \* the interpreter's recursion limit, in stack frames

(* Numbers are counted in halves, so that a query value can lie between two *)
(* stored keys (13.4 between the frame numbers 13 and 14): a stored key is   *)
(* an even number, a query value any number from below the least key to     *)
(* above the greatest.                                                      *)
KeyValues == {2 * k : k \in 0..MaxKey}
QueryValues == (0 - 1)..(2 * MaxKey + 1)
RowIds == (0 - (MaxRows + 1))..(MaxRows + 1)
ChunkNumbers == {0, 1}
Procs == {1, 2}

SeqsUpTo(S, n) == UNION {[1..k -> S] : k \in 0..n}

(* The chunk paths of the store model: chunk n lives at path PathOf(n). *)
PathOf(n) == IF n = 0 THEN <<"a">> ELSE <<"b">>

Inputs == { <<<<0, PathOf(0)>>>>,
            <<<<0, PathOf(0)>>, <<1, PathOf(1)>>>>,
            <<<<1, PathOf(1)>>, <<0, PathOf(0)>>>>,
            <<<<1, PathOf(1)>>, <<1, PathOf(0)>>>> }

----------------------------------------------------------------------------
(* Values *)

Num(n) == [t |-> "num", v |-> n]
PosInf == [t |-> "inf", v |-> 0]
NegInf == [t |-> "-inf", v |-> 0]
NaN == [t |-> "nan", v |-> 0]

SetMin(S) == CHOOSE x \in S : \A y \in S : x <= y
SetMax(S) == CHOOSE x \in S : \A y \in S : x >= y
Range(s) == {s[i] : i \in 1..Len(s)}
Abs(x) == IF x < 0 THEN 0 - x ELSE x

(* min(a, n) and max(a, n) of a running statistic and a finite number *)
FMin(a, n) == IF a.t = "inf" THEN Num(n)
              ELSE IF a.t = "-inf" THEN a
              ELSE IF a.v <= n THEN a ELSE Num(n)
FMax(a, n) == IF a.t = "-inf" THEN Num(n)
              ELSE IF a.t = "inf" THEN a
              ELSE IF a.v >= n THEN a ELSE Num(n)

Tuple(a, b) == [kind |-> "tuple", val |-> <<a, b>>, exc |-> ""]
None == [kind |-> "None", val |-> <<>>, exc |-> ""]
Raise(e) == [kind |-> "raise", val |-> <<>>, exc |-> e]
Rows(s) == [kind |-> "rows", val |-> s, exc |-> ""]
Pending == [kind |-> "pending", val |-> <<>>, exc |-> ""]

Key(row, what) == IF what = "frame_number" THEN row.frame_number ELSE row.frame_time

----------------------------------------------------------------------------
(* new_from_chunks *)

(* sorted(chunk_n_and_chunk_paths, key=operator.itemgetter(0)): stable *)
RECURSIVE InsertSorted(_, _)
InsertSorted(s, e) ==
    IF s = <<>> THEN <<e>>
    ELSE IF s[Len(s)][1] <= e[1] THEN Append(s, e)
    ELSE Append(InsertSorted(SubSeq(s, 1, Len(s) - 1), e), s[Len(s)])

RECURSIVE SortByChunk(_)
SortByChunk(s) ==
    IF s = <<>> THEN <<>>
    ELSE InsertSorted(SortByChunk(SubSeq(s, 1, Len(s) - 1)), s[Len(s)])

(* what _load_index can return for a chunk: frame_number is a list;        *)
(* frame_time is a list, or (scalar) a single number that is no list       *)
LoadResults ==
    [frame_number : SeqsUpTo(KeyValues, MaxRows),
     frame_time   : SeqsUpTo(KeyValues, MaxRows),
     scalar       : {FALSE}]
    \cup
    [frame_number : SeqsUpTo(KeyValues, MaxRows),
     frame_time   : {<<t>> : t \in KeyValues},
     scalar       : {TRUE}]

Min2(a, b) == IF a <= b THEN a ELSE b

(* the records of lines 150-155: zip stops at the shorter list *)
Records(chunk_n, idx) ==
    [i \in 1..Min2(Len(idx.frame_number), Len(idx.frame_time)) |->
        [chunk |-> chunk_n, frame_idx |-> i - 1,
         frame_number |-> idx.frame_number[i],
         frame_time |-> idx.frame_time[i]]]

(* lines 144-147 *)
UpdateStats(st, idx) ==
    [frame_time_min |-> FMin(st.frame_time_min, SetMin(Range(idx.frame_time))),
     frame_time_max |-> FMax(st.frame_time_max, SetMax(Range(idx.frame_time))),
     frame_min      |-> FMin(st.frame_min, SetMin(Range(idx.frame_number))),
     frame_max      |-> FMax(st.frame_max, SetMax(Range(idx.frame_number)))]

InitStats == [frame_time_min |-> PosInf, frame_time_max |-> NegInf,
              frame_min |-> PosInf, frame_max |-> NegInf]

NoCall == [op |-> "none", what |-> "", arg |-> 0, dir |-> "", retries |-> 0,
           res |-> None]

(* _load_index raises IOError: the chunk is skipped *)
LoadMissing ==
    /\ pc = "build" /\ todo # <<>>
    /\ todo' = Tail(todo)
    /\ UNCHANGED <<input, other, frames, chunks, stats, summary, pc, self, call>>
    /\ UNCHANGED cacheVars

(* idx["frame_number"] is empty: the chunk is skipped *)
SkipEmpty ==
    /\ pc = "build" /\ todo # <<>>
    /\ \E idx \in LoadResults : idx.frame_number = <<>>
    /\ todo' = Tail(todo)
    /\ UNCHANGED <<input, other, frames, chunks, stats, summary, pc, self, call>>
    /\ UNCHANGED cacheVars

(* np.min of an empty frame_time list raises ValueError, which nothing catches *)
BuildFails ==
    /\ pc = "build" /\ todo # <<>>
    /\ \E idx \in LoadResults :
          /\ idx.frame_number # <<>>
          /\ idx.frame_time = <<>>
    /\ pc' = "failed"
    /\ UNCHANGED <<input, other, todo, frames, chunks, stats, summary, self, call>>
    /\ UNCHANGED cacheVars

(* frame_time is no list: zip raises TypeError, "corrupt chunk", continue *)
SkipCorrupt ==
    /\ pc = "build" /\ todo # <<>>
    /\ \E idx \in LoadResults :
          /\ idx.frame_number # <<>>
          /\ idx.scalar
          /\ stats' = UpdateStats(stats, idx)
    /\ todo' = Tail(todo)
    /\ UNCHANGED <<input, other, frames, chunks, summary, pc, self, call>>
    /\ UNCHANGED cacheVars

(* the chunk's records and its chunk record are inserted *)
InsertChunk ==
    /\ pc = "build" /\ todo # <<>>
    /\ \E idx \in LoadResults :
          /\ idx.frame_number # <<>>
          /\ idx.frame_time # <<>>
          /\ ~idx.scalar
          /\ Len(frames) + Len(Records(todo[1][1], idx)) <= MaxRows
          /\ stats' = UpdateStats(stats, idx)
          /\ frames' = frames \o Records(todo[1][1], idx)
          /\ chunks' = Append(chunks, [chunk |-> todo[1][1], chunk_path |-> todo[1][2]])
    /\ todo' = Tail(todo)
    /\ UNCHANGED <<input, other, summary, pc, self, call>>
    /\ UNCHANGED cacheVars

(* ImgStoreIndex.__init__ *)
Open(fr, ch, sm) ==
    [frame_count    |-> Len(fr),
     frame_time_max |-> IF Len(fr) # 0 THEN sm.frame_time_max ELSE Num(0),
     frame_time_min |-> IF Len(fr) # 0 THEN sm.frame_time_min ELSE Num(0),
     frame_max      |-> IF Len(fr) # 0 THEN sm.frame_max ELSE NaN,
     frame_min      |-> IF Len(fr) # 0 THEN sm.frame_min ELSE NaN,
     chunks         |-> LET s == SortByChunk([i \in 1..Len(ch) |-> <<ch[i].chunk>>])
                        IN  [i \in 1..Len(s) |-> s[i][1]]]

(* the loop is over: the summary is written and the index object is made *)
FinishBuild ==
    /\ pc = "build" /\ todo = <<>>
    /\ summary' = stats
    /\ self' = Open(frames, chunks, stats)
    /\ pc' = "open"
    /\ UNCHANGED <<input, other, todo, frames, chunks, stats, call>>
    /\ UNCHANGED cacheVars

Build == LoadMissing \/ SkipEmpty \/ BuildFails \/ SkipCorrupt \/ InsertChunk
         \/ FinishBuild

NoSelf == [frame_count |-> 0, frame_time_max |-> NaN, frame_time_min |-> NaN,
           frame_max |-> NaN, frame_min |-> NaN, chunks |-> <<>>]

(* self._chunk_index = None *)
NoIndex == [set |-> FALSE, frame_number |-> <<>>, frame_time |-> <<>>]

Init ==
    /\ input \in Inputs
    /\ other = input
    /\ todo = SortByChunk(input)
    /\ frames = <<>>
    /\ chunks = <<>>
    /\ stats = InitStats
    /\ summary = InitStats
    /\ pc = "build"
    /\ self = NoSelf
    /\ call = NoCall
    /\ ppc = [p \in Procs |-> "idle"]
    /\ mem = [p \in Procs |-> NoIndex]
    /\ fs = <<>>
    /\ keys = [p \in Procs |-> <<>>]

SpecBuild == Init /\ [][Build]_vars

----------------------------------------------------------------------------
(* Queries.  Each is a read of the frames table of an open index: it leaves *)
(* the store as it was, so what a query returns does not depend on the      *)
(* queries before it, and a behaviour asks one query of the store it built. *)

queryUnchanged == <<input, other, todo, frames, chunks, stats, summary, pc, self,
                    ppc, mem, fs, keys>>

(* the rowids of the rows whose key equals value *)
Matching(fr, what, value) == {i \in 1..Len(fr) : Key(fr[i], what) = value}

(* find_chunk without the except clause: fetchone's None is unpacked and the *)
(* TypeError leaves the function                                            *)
find_chunk_no_except(fr, what, value) ==
    IF what = "index"
    THEN LET off == IF value < 0 THEN 0 ELSE value
         IN  IF off + 1 <= Len(fr)
             THEN Tuple(fr[off + 1].chunk, fr[off + 1].frame_idx)
             ELSE Raise("TypeError")
    ELSE LET m == Matching(fr, what, value)
         IN  IF m = {}
             THEN Raise("TypeError")
             ELSE Tuple(fr[SetMin(m)].chunk, fr[SetMin(m)].frame_idx)

(* find_chunk(what, value) *)
find_chunk(fr, what, value) ==
    IF what = "index"
    THEN (* LIMIT 1 OFFSET int(value); a negative OFFSET counts as 0 *)
         LET off == IF value < 0 THEN 0 ELSE value
         IN  IF off + 1 <= Len(fr)
             THEN Tuple(fr[off + 1].chunk, fr[off + 1].frame_idx)
             ELSE Tuple(0 - 1, 0 - 1)
    ELSE LET m == Matching(fr, what, value)
         IN  IF m = {}
             THEN Tuple(0 - 1, 0 - 1)
             ELSE Tuple(fr[SetMin(m)].chunk, fr[SetMin(m)].frame_idx)

FindChunk ==
    /\ pc = "open"
    /\ call = NoCall
    /\ \E what \in {"frame_number", "frame_time", "index"}, value \in QueryValues :
          call' = [op |-> "find_chunk", what |-> what, arg |-> value, dir |-> "",
                   retries |-> 0, res |-> find_chunk(frames, what, value)]
    /\ UNCHANGED queryUnchanged

SpecFind == Init /\ [][Build \/ FindChunk]_vars

(* the WHERE clauses with the two comparisons exchanged *)
Allowed_swapped(fr, query, value, direction) ==
    {i \in 1..Len(fr) :
        \/ direction = "all"
        \/ direction = "future" /\ value - Key(fr[i], query) >= 0
        \/ direction = "past" /\ value - Key(fr[i], query) <= 0}

(* find_chunk_nearest: the rowids the WHERE clause of a direction keeps *)
Allowed(fr, query, value, direction) ==
    {i \in 1..Len(fr) :
        \/ direction = "all"
        \/ direction = "future" /\ value - Key(fr[i], query) <= 0
        \/ direction = "past" /\ value - Key(fr[i], query) >= 0}

(* ORDER BY ABS(? - key) LIMIT 1: the rowids that can come first; the order *)
(* among rows of equal distance is not fixed by the statement              *)
Nearest(fr, query, value, direction) ==
    LET a == Allowed(fr, query, value, direction)
    IN  {i \in a : \A j \in a :
            Abs(value - Key(fr[i], query)) <= Abs(value - Key(fr[j], query))}

(* the outermost frame of find_chunk_nearest(query, value, direction=...) *)
NearestCall ==
    /\ pc = "open"
    /\ call = NoCall
    /\ \E query \in {"frame_number", "frame_time"}, value \in QueryValues,
          direction \in {"all", "future", "past"} :
          LET best == Nearest(frames, query, value, direction)
              c == [op |-> "find_chunk_nearest", what |-> query, arg |-> value,
                    dir |-> direction, retries |-> 0, res |-> Pending]
          IN  IF best = {}
              THEN call' = c
              ELSE \E i \in best :
                     call' = [c EXCEPT !.res = Tuple(frames[i].chunk, frames[i].frame_idx)]
    /\ UNCHANGED queryUnchanged

(* data is None: return self.find_chunk_nearest(query, value, direction="all"), *)
(* one more stack frame; past the recursion limit the interpreter raises        *)
NearestFallback ==
    /\ pc = "open"
    /\ call.op = "find_chunk_nearest"
    /\ call.res.kind = "pending"
    /\ LET best == Nearest(frames, call.what, call.arg, "all")
       IN  IF call.retries + 1 >= MaxDepth
           THEN call' = [call EXCEPT !.res = Raise("RecursionError")]
           ELSE IF best = {}
           THEN call' = [call EXCEPT !.retries = @ + 1]
           ELSE \E i \in best :
                  call' = [call EXCEPT !.retries = @ + 1,
                                       !.res = Tuple(frames[i].chunk, frames[i].frame_idx)]
    /\ UNCHANGED queryUnchanged

SpecNearest == Init /\ [][Build \/ NearestCall \/ NearestFallback]_vars

(* get_chunk_interval(chunk_n, metavar): the rows of the chunk are numbered by *)
(* frame_number descending (rn); the rows rn = total_count and rn = 1 are      *)
(* returned in that order.  hi is the row numbered 1, lo the row numbered      *)
(* total_count; rows of equal frame_number can be numbered either way.         *)
ChunkRows(fr, chunk_n) == {i \in 1..Len(fr) : fr[i].chunk = chunk_n}

(* get_chunk_interval with the outer ORDER BY rn ascending *)
get_chunk_interval_asc(fr, chunk_n, metavar) ==
    LET rows == ChunkRows(fr, chunk_n)
    IN  IF rows = {} THEN {None}
        ELSE IF Cardinality(rows) = 1 THEN {Raise("ValueError")}
        ELSE {Tuple(Key(fr[hi], metavar), Key(fr[lo], metavar)) :
                <<lo, hi>> \in {p \in rows \X rows :
                    /\ p[1] # p[2]
                    /\ \A j \in rows : fr[p[1]].frame_number <= fr[j].frame_number
                    /\ \A j \in rows : fr[p[2]].frame_number >= fr[j].frame_number}}

get_chunk_interval(fr, chunk_n, metavar) ==
    LET rows == ChunkRows(fr, chunk_n)
    IN  IF rows = {} THEN {None}
        ELSE IF Cardinality(rows) = 1 THEN {Raise("ValueError")}
        ELSE {Tuple(Key(fr[lo], metavar), Key(fr[hi], metavar)) :
                <<lo, hi>> \in {p \in rows \X rows :
                    /\ p[1] # p[2]
                    /\ \A j \in rows : fr[p[1]].frame_number <= fr[j].frame_number
                    /\ \A j \in rows : fr[p[2]].frame_number >= fr[j].frame_number}}

GetChunkInterval ==
    /\ pc = "open"
    /\ call = NoCall
    /\ \E chunk_n \in ChunkNumbers, metavar \in {"frame_number", "frame_time"} :
          \E r \in get_chunk_interval(frames, chunk_n, metavar) :
             call' = [op |-> "get_chunk_interval", what |-> metavar, arg |-> chunk_n,
                      dir |-> "", retries |-> 0, res |-> r]
    /\ UNCHANGED queryUnchanged

SpecInterval == Init /\ [][Build \/ GetChunkInterval]_vars

(* get_all_metadata(rowid) *)
Meta(fr, ids) == [i \in 1..Len(ids) |-> <<fr[ids[i]].frame_number, fr[ids[i]].frame_time>>]

get_all_metadata(fr, rowid) ==
    LET r == IF rowid = 0 THEN 1 ELSE rowid
    IN  IF r > 0
        THEN (* WHERE rowid = r *)
             IF r <= Len(fr) THEN Rows(Meta(fr, <<r>>)) ELSE Rows(<<>>)
        ELSE (* ORDER BY rowid DESC LIMIT 1 *)
             IF Len(fr) > 0 THEN Rows(Meta(fr, <<Len(fr)>>)) ELSE Rows(<<>>)

GetAllMetadata ==
    /\ pc = "open"
    /\ call = NoCall
    /\ \/ \E rowid \in RowIds :
            call' = [op |-> "get_all_metadata", what |-> "rowid", arg |-> rowid,
                     dir |-> "", retries |-> 0, res |-> get_all_metadata(frames, rowid)]
       \/ call' = [op |-> "get_all_metadata", what |-> "all", arg |-> 0,
                   dir |-> "", retries |-> 0,
                   res |-> Rows(Meta(frames, [i \in 1..Len(frames) |-> i]))]
    /\ UNCHANGED queryUnchanged

SpecMetadata == Init /\ [][Build \/ GetAllMetadata]_vars

(* get_chunk_and_frame_idx_(value, metavar): every matching row is appended *)
(* to data, and data is unpacked into two names                             *)
get_chunk_and_frame_idx_(fr, value, metavar) ==
    LET m == Matching(fr, metavar, value)
    IN  IF m = {} THEN None
        ELSE IF Cardinality(m) = 1
        THEN Tuple(fr[SetMin(m)].chunk, fr[SetMin(m)].frame_idx)
        ELSE Raise("ValueError")

GetChunkAndFrameIdx ==
    /\ pc = "open"
    /\ call = NoCall
    /\ \E metavar \in {"frame_number", "frame_time"}, value \in QueryValues :
          call' = [op |-> "get_chunk_and_frame_idx_", what |-> metavar, arg |-> value,
                   dir |-> "", retries |-> 0,
                   res |-> get_chunk_and_frame_idx_(frames, value, metavar)]
    /\ UNCHANGED queryUnchanged

SpecLookup == Init /\ [][Build \/ GetChunkAndFrameIdx]_vars

----------------------------------------------------------------------------
(* chunk_index: the cache file name, lines 290-295 *)

DigitChars == <<"0", "1", "2", "3", "4", "5", "6", "7", "8", "9">>

(* str(n) of a chunk number n >= 0 *)
RECURSIVE Str(_)
Str(n) == IF n < 10 THEN <<DigitChars[n + 1]>>
          ELSE Str(n \div 10) \o <<DigitChars[(n % 10) + 1]>>

(* line 293: the str() of every chunk number and path of data, joined by "" *)
RECURSIVE Join(_)
Join(data) == IF data = <<>> THEN <<>>
              ELSE Str(data[1][1]) \o data[1][2] \o Join(Tail(data))

(* the text that is hashed; the digest is taken to be one-to-one on texts *)
hashable(chunk_n_and_chunk_paths) == Join(SortByChunk(chunk_n_and_chunk_paths))

(* process 1 uses the index built from input, process 2 one built from other *)
InputOf(p) == IF p = 1 THEN input ELSE other

(* the inputs of the cache-key model: chunk numbers of one and two digits,    *)
(* relative paths that may start with a digit                                *)
HashMaxLen == 2
HashChunkNumbers == {1, 12}
HashPaths == {<<"x">>, <<"2", "x">>}
HashInputs == SeqsUpTo(HashChunkNumbers \X HashPaths, HashMaxLen) \ {<<>>}

ComputeKey(p) ==
    /\ keys[p] = <<>>
    /\ keys' = [keys EXCEPT ![p] = hashable(InputOf(p))]
    /\ UNCHANGED <<input, other, todo, frames, chunks, stats, summary, pc, self, call,
                   ppc, mem, fs>>

InitHash ==
    /\ input \in HashInputs
    /\ other \in HashInputs
    /\ todo = SortByChunk(input)
    /\ frames = <<>>
    /\ chunks = <<>>
    /\ stats = InitStats
    /\ summary = InitStats
    /\ pc = "build"
    /\ self = NoSelf
    /\ call = NoCall
    /\ ppc = [p \in Procs |-> "idle"]
    /\ mem = [p \in Procs |-> NoIndex]
    /\ fs = <<>>
    /\ keys = [p \in Procs |-> <<>>]

SpecHash == InitHash /\ [][\E p \in Procs : ComputeKey(p)]_vars

----------------------------------------------------------------------------
(* chunk_index, lines 298-309, as the steps of a process *)

cacheUnchanged == <<input, other, todo, frames, chunks, stats, summary, pc, self, call>>

WriteFile(name, file) ==
    [n \in (DOMAIN fs) \cup {name} |-> IF n = name THEN file ELSE fs[n]]

(* the mappings lines 303-306 can build: one interval per chunk of self._chunks *)
ChunkIndexes ==
    LET cs == Range(self.chunks)
    IN  {[set |-> TRUE, frame_number |-> fn, frame_time |-> ft] :
           fn \in {f \in [cs -> UNION {get_chunk_interval(frames, c, "frame_number") : c \in cs}] :
                     \A c \in cs : f[c] \in get_chunk_interval(frames, c, "frame_number")},
           ft \in {f \in [cs -> UNION {get_chunk_interval(frames, c, "frame_time") : c \in cs}] :
                     \A c \in cs : f[c] \in get_chunk_interval(frames, c, "frame_time")}}

(* get_chunk_interval raises for some chunk of self._chunks *)
IntervalRaises ==
    \E c \in Range(self.chunks) : Raise("ValueError") \in get_chunk_interval(frames, c, "frame_number")

(* lines 290-300: the file name, then os.path.exists *)
ChunkIndexEnter(p) ==
    /\ pc = "open"
    /\ ppc[p] = "idle"
    /\ keys' = [keys EXCEPT ![p] = hashable(InputOf(p))]
    /\ ppc' = [ppc EXCEPT ![p] = IF keys'[p] \in DOMAIN fs THEN "load" ELSE "compute"]
    /\ UNCHANGED <<mem, fs>>
    /\ UNCHANGED cacheUnchanged

(* line 301: np.load of the file; a file still being written has no complete *)
(* mapping in it                                                             *)
ChunkIndexLoad(p) ==
    /\ ppc[p] = "load"
    /\ IF fs[keys[p]].writers # {}
       THEN /\ ppc' = [ppc EXCEPT ![p] = "partial_read"]
            /\ UNCHANGED mem
       ELSE /\ ppc' = [ppc EXCEPT ![p] = "done"]
            /\ mem' = [mem EXCEPT ![p] = fs[keys[p]].data]
    /\ UNCHANGED <<fs, keys>>
    /\ UNCHANGED cacheUnchanged

(* lines 303-306 *)
ChunkIndexCompute(p) ==
    /\ ppc[p] = "compute"
    /\ IF IntervalRaises
       THEN /\ ppc' = [ppc EXCEPT ![p] = "raised"]
            /\ UNCHANGED mem
       ELSE /\ ppc' = [ppc EXCEPT ![p] = "save"]
            /\ \E m \in ChunkIndexes : mem' = [mem EXCEPT ![p] = m]
    /\ UNCHANGED <<fs, keys>>
    /\ UNCHANGED cacheUnchanged

(* line 307, np.save: the file is opened for writing under its final name *)
ChunkIndexSaveOpen(p) ==
    /\ ppc[p] = "save"
    /\ fs' = WriteFile(keys[p],
                [writers |-> (IF keys[p] \in DOMAIN fs THEN fs[keys[p]].writers ELSE {})
                             \cup {p},
                 data |-> NoIndex])
    /\ ppc' = [ppc EXCEPT ![p] = "writing"]
    /\ UNCHANGED <<mem, keys>>
    /\ UNCHANGED cacheUnchanged

(* line 307, np.save: the mapping is written and the file closed *)
ChunkIndexSaveClose(p) ==
    /\ ppc[p] = "writing"
    /\ fs' = WriteFile(keys[p], [writers |-> fs[keys[p]].writers \ {p}, data |-> mem[p]])
    /\ ppc' = [ppc EXCEPT ![p] = "done"]
    /\ UNCHANGED <<mem, keys>>
    /\ UNCHANGED cacheUnchanged

ChunkIndex(p) == ChunkIndexEnter(p) \/ ChunkIndexLoad(p) \/ ChunkIndexCompute(p)
                 \/ ChunkIndexSaveOpen(p) \/ ChunkIndexSaveClose(p)

SpecCache == Init /\ [][Build \/ \E p \in Procs : ChunkIndex(p)]_vars

----------------------------------------------------------------------------
Next == \/ Build
        \/ FindChunk
        \/ NearestCall \/ NearestFallback
        \/ GetChunkInterval
        \/ GetAllMetadata
        \/ GetChunkAndFrameIdx
        \/ \E p \in Procs : ChunkIndex(p)
        \/ \E p \in Procs : ComputeKey(p)

Spec == Init /\ [][Next]_vars

----------------------------------------------------------------------------
(* Properties *)

N == Len(frames)
KeyOf(i, what) == IF what = "frame_number" THEN frames[i].frame_number
                  ELSE frames[i].frame_time
Place(i) == <<frames[i].chunk, frames[i].frame_idx>>
Sentinel == <<0 - 1, 0 - 1>>

(* C1: find_chunk never raises; for frame_number and frame_time it returns   *)
(* (-1, -1) when no row has the key equal to the value and otherwise the     *)
(* (chunk, frame_idx) of the first such row; for "index" it returns (-1, -1) *)
(* when the offset is at or beyond the number of rows and the row at the     *)
(* offset when the offset is in 0..N-1.                                      *)
C1_FindChunkSentinel ==
    call.op = "find_chunk" =>
        /\ call.res.kind = "tuple"
        /\ IF call.what = "index"
           THEN /\ call.arg >= N => call.res.val = Sentinel
                /\ (0 <= call.arg /\ call.arg < N) => call.res.val = Place(call.arg + 1)
           ELSE /\ (\A i \in 1..N : KeyOf(i, call.what) # call.arg)
                      => call.res.val = Sentinel
                /\ \A i \in 1..N :
                      (/\ KeyOf(i, call.what) = call.arg
                       /\ \A j \in 1..(i - 1) : KeyOf(j, call.what) # call.arg)
                      => call.res.val = Place(i)

(* a store with rows was asked for a key no row has, and for an offset past the end *)
C1_Witness ==
    /\ call.op = "find_chunk"
    /\ N >= 1
    /\ call.res.val = Sentinel
    /\ \/ call.what = "index" /\ call.arg >= N
       \/ call.what = "frame_number" /\ \A i \in 1..N : KeyOf(i, call.what) # call.arg

Satisfying(what, value, direction) ==
    {i \in 1..N : IF direction = "future" THEN KeyOf(i, what) >= value
                  ELSE KeyOf(i, what) <= value}

IsNearestIn(i, S, what, value) ==
    /\ i \in S
    /\ \A j \in S : Abs(value - KeyOf(i, what)) <= Abs(value - KeyOf(j, what))

(* C2: on a store with at least one frame a finished future or past call of   *)
(* find_chunk_nearest returns a row: one of minimal distance among the rows   *)
(* that satisfy the direction when there are such rows, and otherwise one of  *)
(* minimal distance among all rows (the unrestricted search).                 *)
C2_NearestTotal ==
    (/\ call.op = "find_chunk_nearest"
     /\ call.dir \in {"future", "past"}
     /\ call.res.kind # "pending"
     /\ N >= 1)
    => /\ call.res.kind = "tuple"
       /\ LET sat == Satisfying(call.what, call.arg, call.dir)
          IN  IF sat # {}
              THEN \E i \in sat : /\ IsNearestIn(i, sat, call.what, call.arg)
                                  /\ call.res.val = Place(i)
              ELSE \E i \in 1..N : /\ IsNearestIn(i, 1..N, call.what, call.arg)
                                   /\ call.res.val = Place(i)

(* a future call whose value lies beyond every key came back through the fallback *)
C2_Witness ==
    /\ call.op = "find_chunk_nearest"
    /\ call.dir = "future"
    /\ N >= 2
    /\ Satisfying(call.what, call.arg, call.dir) = {}
    /\ call.retries = 1
    /\ call.res.kind = "tuple"

RowsOf(chunk_n) == {i \in 1..N : frames[i].chunk = chunk_n}
KeysOf(chunk_n, what) == {KeyOf(i, what) : i \in RowsOf(chunk_n)}

(* C3 as stated: the pair is (largest, smallest) of the key over the chunk's *)
(* rows, and None for a chunk without rows.                                  *)
C3_MaxThenMin ==
    call.op = "get_chunk_interval" =>
        IF RowsOf(call.arg) = {}
        THEN call.res.kind = "None"
        ELSE /\ call.res.kind = "tuple"
             /\ call.res.val = <<SetMax(KeysOf(call.arg, call.what)),
                                 SetMin(KeysOf(call.arg, call.what))>>

(* C3 amended: for a chunk with two or more rows the pair is (key of a row   *)
(* with the chunk's smallest frame_number, key of another row, with the      *)
(* chunk's largest frame_number), so (smallest, largest) for frame_number;   *)
(* None for a chunk without rows; ValueError for a chunk with one row.       *)
C3_FirstThenLast ==
    call.op = "get_chunk_interval" =>
        LET rows == RowsOf(call.arg)
            fns == KeysOf(call.arg, "frame_number")
        IN  /\ rows = {} => call.res.kind = "None"
            /\ Cardinality(rows) = 1 =>
                  (call.res.kind = "raise" /\ call.res.exc = "ValueError")
            /\ Cardinality(rows) >= 2 =>
                  /\ call.res.kind = "tuple"
                  /\ call.what = "frame_number" =>
                        call.res.val = <<SetMin(fns), SetMax(fns)>>
                  /\ \E lo \in rows, hi \in rows :
                        /\ lo # hi
                        /\ frames[lo].frame_number = SetMin(fns)
                        /\ frames[hi].frame_number = SetMax(fns)
                        /\ call.res.val = <<KeyOf(lo, call.what), KeyOf(hi, call.what)>>

(* a chunk with two different frame numbers gave (smallest, largest) *)
C3_Witness ==
    /\ call.op = "get_chunk_interval"
    /\ call.what = "frame_number"
    /\ Cardinality(RowsOf(call.arg)) >= 2
    /\ call.res.kind = "tuple"
    /\ call.res.val[1] < call.res.val[2]

IsPairWithin(r, lo, hi) ==
    /\ r.kind = "tuple"
    /\ lo.t = "num" /\ hi.t = "num"
    /\ lo.v <= r.val[1] /\ r.val[1] <= hi.v
    /\ lo.v <= r.val[2] /\ r.val[2] <= hi.v

(* C4: chunk_index never fails while it collects the intervals, and every    *)
(* interval it holds for a chunk of `chunks` under frame_number is a pair    *)
(* whose two sides lie in [frame_min, frame_max] of the store.               *)
C4_ChunkIntervalsInRange ==
    \A p \in Procs :
        /\ ppc[p] # "raised"
        /\ mem[p].set =>
              \A c \in Range(self.chunks) :
                  /\ c \in DOMAIN mem[p].frame_number
                  /\ IsPairWithin(mem[p].frame_number[c], self.frame_min, self.frame_max)

(* C5: get_all_metadata(k) is the k-th row for 1 <= k <= N, the first row   *)
(* for k = 0, and the k-th row from the end for -N <= k <= -1.              *)
C5_RowidPositions ==
    (call.op = "get_all_metadata" /\ call.what = "rowid") =>
        LET k == call.arg
            row(i) == <<<<frames[i].frame_number, frames[i].frame_time>>>>
        IN  /\ (1 <= k /\ k <= N) => call.res.val = row(k)
            /\ (k = 0 /\ N >= 1) => call.res.val = row(1)
            /\ (0 - N <= k /\ k <= 0 - 1) => call.res.val = row(N + 1 + k)

(* C6: get_chunk_and_frame_idx_ never fails; it returns None when no row has *)
(* the key and otherwise the (chunk, frame_idx) of the first row that has it. *)
C6_FirstMatchOrNone ==
    call.op = "get_chunk_and_frame_idx_" =>
        LET m == {i \in 1..N : KeyOf(i, call.what) = call.arg}
        IN  /\ call.res.kind # "raise"
            /\ m = {} => call.res.kind = "None"
            /\ m # {} => (call.res.kind = "tuple" /\ call.res.val = Place(SetMin(m)))

(* C7: once the store is built, every frame's chunk has a chunk record and   *)
(* every chunk record has frames, and the four summary values are the        *)
(* minimum and maximum of frame_number and frame_time over the frames table. *)
C7_SummaryOverInserted ==
    (pc = "open" /\ N >= 1) =>
        LET fn == {frames[i].frame_number : i \in 1..N}
            ft == {frames[i].frame_time : i \in 1..N}
        IN  /\ {frames[i].chunk : i \in 1..N} = {chunks[i].chunk : i \in 1..Len(chunks)}
            /\ summary.frame_min = Num(SetMin(fn))
            /\ summary.frame_max = Num(SetMax(fn))
            /\ summary.frame_time_min = Num(SetMin(ft))
            /\ summary.frame_time_max = Num(SetMax(ft))

(* C8: no process reads a cache file that another is still writing. *)
C8_NoPartialRead == \A p \in Procs : ppc[p] # "partial_read"

(* C9: two index objects over different input sets hash different texts. *)
C9_KeyInjective ==
    (/\ keys[1] # <<>>
     /\ keys[2] # <<>>
     /\ Range(input) # Range(other))
    => keys[1] # keys[2]

(* C10: a call of find_chunk_nearest makes at most one fallback call and     *)
(* never runs into the recursion limit.                                      *)
C10_AtMostOneRetry ==
    call.op = "find_chunk_nearest" =>
        /\ call.retries <= 1
        /\ call.res.exc # "RecursionError"
====
